---------------------------- MODULE Spec2Model ----------------------------
(***************************************************************************)
(* Model of app.py, the ATFM Iraq dashboard script.                        *)
(*                                                                         *)
(* One script run goes top to bottom: session auth block, fetch of the     *)
(* Word file and read_docx, the extractors, the layout sections (with the  *)
(* sector capacity table), and the ADP (DOCX) generator.  st.stop() ends   *)
(* a run, st.experimental_rerun() and any later interaction start a new    *)
(* one; st.session_state.auth is the only state kept between runs.         *)
(*                                                                         *)
(* Text is modelled as TLA+ strings, character by character.  The en dash  *)
(* U+2013 of the source is written "~" here (the module is ASCII only).    *)
(***************************************************************************)
EXTENDS Integers, Sequences, FiniteSets, TLC

VARIABLES auth, pc, RAW_TEXT, airspace_info, overflights_df, est_peak,
          cap_df, adp_cap_table, get_calls, fetch_failed

vars == <<auth, pc, RAW_TEXT, airspace_info, overflights_df, est_peak,
          cap_df, adp_cap_table, get_calls, fetch_failed>>

(***************************************************************************)
(* Bounds of the model.                                                    *)
(***************************************************************************)
MaxSectionParas == 4
MaxSeriesParas == 4

(***************************************************************************)
(* Characters and the str methods the script uses.                         *)
(***************************************************************************)
EN_DASH == "~"

UpperChars ==
    {"A", "B", "C", "D", "E", "F", "G", "H", "I", "J", "K", "L", "M",
     "N", "O", "P", "Q", "R", "S", "T", "U", "V", "W", "X", "Y", "Z"}

LowerChars ==
    {"a", "b", "c", "d", "e", "f", "g", "h", "i", "j", "k", "l", "m",
     "n", "o", "p", "q", "r", "s", "t", "u", "v", "w", "x", "y", "z"}

Digits == {"0", "1", "2", "3", "4", "5", "6", "7", "8", "9"}

\* the value of a decimal digit
DigitValue ==
    ("0" :> 0) @@ ("1" :> 1) @@ ("2" :> 2) @@ ("3" :> 3) @@ ("4" :> 4)
    @@ ("5" :> 5) @@ ("6" :> 6) @@ ("7" :> 7) @@ ("8" :> 8) @@ ("9" :> 9)

\* c.lower() for the cased characters
LowerOf ==
    ("A" :> "a") @@ ("B" :> "b") @@ ("C" :> "c") @@ ("D" :> "d") @@ ("E" :> "e")
    @@ ("F" :> "f") @@ ("G" :> "g") @@ ("H" :> "h") @@ ("I" :> "i") @@ ("J" :> "j")
    @@ ("K" :> "k") @@ ("L" :> "l") @@ ("M" :> "m") @@ ("N" :> "n") @@ ("O" :> "o")
    @@ ("P" :> "p") @@ ("Q" :> "q") @@ ("R" :> "r") @@ ("S" :> "s") @@ ("T" :> "t")
    @@ ("U" :> "u") @@ ("V" :> "v") @@ ("W" :> "w") @@ ("X" :> "x") @@ ("Y" :> "y")
    @@ ("Z" :> "z")

\* s[i..j] (1-based, both ends included), clipped to the string like a slice
Slice(s, i, j) ==
    LET lo == IF i < 1 THEN 1 ELSE i
        hi == IF j > Len(s) THEN Len(s) ELSE j
    IN  IF lo > hi THEN "" ELSE SubSeq(s, lo, hi)

\* the character at position i, "" outside the string
Char(s, i) == IF 1 <= i /\ i <= Len(s) THEN SubSeq(s, i, i) ELSE ""

IsSpace(c) == c \in {" ", "\n", "\t"}

IsDigit(c) == c \in Digits

LowerChar(c) == IF c \in UpperChars THEN LowerOf[c] ELSE c

RECURSIVE Lower(_)
Lower(s) == IF s = "" THEN "" ELSE LowerChar(Char(s, 1)) \o Lower(Tail(s))

\* sub in s
Contains(sub, s) ==
    \/ sub = ""
    \/ \E i \in 1..(Len(s) - Len(sub) + 1) : SubSeq(s, i, i + Len(sub) - 1) = sub

\* s.isupper(): at least one cased character and no lowercase one
IsUpper(s) ==
    /\ \E i \in 1..Len(s) : Char(s, i) \in UpperChars
    /\ \A i \in 1..Len(s) : Char(s, i) \notin LowerChars

RECURSIVE LStrip(_)
LStrip(s) == IF s # "" /\ IsSpace(Char(s, 1)) THEN LStrip(Tail(s)) ELSE s

RECURSIVE RStrip(_)
RStrip(s) ==
    IF s # "" /\ IsSpace(Char(s, Len(s)))
    THEN RStrip(Slice(s, 1, Len(s) - 1))
    ELSE s

\* s.strip()
Strip(s) == RStrip(LStrip(s))

\* position of the first "\n" of s, 0 if there is none
RECURSIVE FindNewline(_, _)
FindNewline(s, i) ==
    IF i > Len(s) THEN 0
    ELSE IF Char(s, i) = "\n" THEN i
    ELSE FindNewline(s, i + 1)

\* text.splitlines(): no trailing empty line after a final line break
RECURSIVE SplitLines(_)
SplitLines(text) ==
    IF text = "" THEN <<>>
    ELSE LET n == FindNewline(text, 1)
         IN  IF n = 0 THEN <<text>>
             ELSE <<Slice(text, 1, n - 1)>>
                      \o SplitLines(Slice(text, n + 1, Len(text)))

\* "\n".join(lines)
RECURSIVE JoinLines(_)
JoinLines(lines) ==
    IF lines = <<>> THEN ""
    ELSE IF Len(lines) = 1 THEN lines[1]
    ELSE lines[1] \o "\n" \o JoinLines(Tail(lines))

\* int(s) for a string of decimal digits
RECURSIVE ParseInt(_)
ParseInt(s) ==
    IF s = "" THEN 0
    ELSE 10 * ParseInt(Slice(s, 1, Len(s) - 1))
             + DigitValue[Char(s, Len(s))]

\* variant: a keyword is recognised only by a line equal to it
AnyKeywordIn_equality(keys, ln) ==
    \E n \in 1..Len(keys) : Lower(keys[n]) = Lower(ln)

\* any(k.lower() in ln.lower() for k in keys)
AnyKeywordIn(keys, ln) ==
    LET low == Lower(ln)
    IN  \E n \in 1..Len(keys) : Contains(Lower(keys[n]), low)

(***************************************************************************)
(* read_docx: the paragraphs of the document joined by line breaks.        *)
(***************************************************************************)
read_docx(paragraphs) == JoinLines(paragraphs)

(***************************************************************************)
(* GENERIC SECTION EXTRACTOR.  Indices are 0-based as in the source:       *)
(* lines[i] of the source is lines[i + 1] here.                            *)
(***************************************************************************)
SHORT_HEADING_LEN == 50

\* first i with a keyword in lines[i], -1 if there is none
RECURSIVE FindStart(_, _, _)
FindStart(lines, keywords, i) ==
    IF i >= Len(lines) THEN -1
    ELSE IF AnyKeywordIn(keywords, lines[i + 1]) THEN i
    ELSE FindStart(lines, keywords, i + 1)

\* variant: the all-caps test without "and j > idx_start + 1"
IsSectionStop_caps_anywhere(l, stop_keywords, j, idx_start) ==
    \/ AnyKeywordIn(stop_keywords, l)
    \/ (Len(l) < SHORT_HEADING_LEN /\ IsUpper(l))

\* the test of line j in the loop that looks for the end of the section
IsSectionStop(l, stop_keywords, j, idx_start) ==
    \/ AnyKeywordIn(stop_keywords, l)
    \/ (Len(l) < SHORT_HEADING_LEN /\ IsUpper(l)) /\ j > idx_start + 1

\* first j >= from that stops the section, len(lines) if there is none
RECURSIVE FindEnd(_, _, _, _)
FindEnd(lines, stop_keywords, idx_start, j) ==
    IF j >= Len(lines) THEN Len(lines)
    ELSE IF IsSectionStop(Strip(lines[j + 1]), stop_keywords, j, idx_start) THEN j
    ELSE FindEnd(lines, stop_keywords, idx_start, j + 1)

\* lines[a:b] for 0 <= a, b <= len(lines)
PySlice(lines, a, b) == IF a >= b THEN <<>> ELSE SubSeq(lines, a + 1, b)

\* variant: the block starts after the line of the keyword
extract_section_after_heading(text, keywords, stop_keywords) ==
    LET lines == SplitLines(text)
        idx_start == FindStart(lines, keywords, 0)
        idx_end == FindEnd(lines, stop_keywords, idx_start, idx_start + 1)
    IN  IF idx_start = -1 THEN ""
        ELSE Strip(JoinLines(PySlice(lines, idx_start + 1, idx_end)))

\* variant: no "if idx_start == -1: return", so the slice is lines[-1:idx_end]
extract_section_no_guard(text, keywords, stop_keywords) ==
    LET lines == SplitLines(text)
        idx_start == FindStart(lines, keywords, 0)
        idx_end == FindEnd(lines, stop_keywords, idx_start, idx_start + 1)
        from == IF idx_start = -1 /\ lines # <<>> THEN Len(lines) - 1
                ELSE IF idx_start = -1 THEN 0 ELSE idx_start
    IN  Strip(JoinLines(PySlice(lines, from, idx_end)))

\* stop_keywords = None is passed as <<>> (stop_keywords or [])
extract_section(text, keywords, stop_keywords) ==
    LET lines == SplitLines(text)
        idx_start == FindStart(lines, keywords, 0)
        idx_end == FindEnd(lines, stop_keywords, idx_start, idx_start + 1)
    IN  IF idx_start = -1 THEN ""
        ELSE Strip(JoinLines(PySlice(lines, idx_start, idx_end)))

AIRSPACE_KEYWORDS == <<"Airspace Information", "Airspace Status", "FIR Information">>

AIRSPACE_STOP_KEYWORDS ==
    <<"Airport", "NOTAM", "Meteorological", "Weather", "Overflight", "Demand",
      "Capacity">>

extract_airspace_info(text) ==
    extract_section(text, AIRSPACE_KEYWORDS, AIRSPACE_STOP_KEYWORDS)

(***************************************************************************)
(* extract_overflights.  The pattern                                       *)
(*   (\d{2}[:]?00)\s*[~\-]\s*(\d{2}[:]?00)\s+(\d+)                         *)
(* is matched over the whole text (\s also matches line breaks).  Every    *)
(* quantifier of it is followed by a character it cannot match, so a match *)
(* at a position is unique and backtracking finds no other.                *)
(***************************************************************************)
\* first position >= i whose character is not white space
RECURSIVE SkipSpace(_, _)
SkipSpace(t, i) ==
    IF i <= Len(t) /\ IsSpace(Char(t, i)) THEN SkipSpace(t, i + 1) ELSE i

\* first position >= i whose character is not a digit
RECURSIVE SkipDigits(_, _)
SkipDigits(t, i) ==
    IF i <= Len(t) /\ IsDigit(Char(t, i)) THEN SkipDigits(t, i + 1) ELSE i

\* \d{2}[:]?00 at position i: the position after it, 0 if it does not match
MatchHour(t, i) ==
    IF ~(i + 1 <= Len(t) /\ IsDigit(Char(t, i)) /\ IsDigit(Char(t, i + 1)))
    THEN 0
    ELSE LET k == IF Char(t, i + 2) = ":" THEN i + 3 ELSE i + 2
         IN  IF Slice(t, k, k + 1) = "00" THEN k + 2 ELSE 0

NoMatch == [end |-> 0, s |-> "", e |-> "", v |-> ""]

\* first position >= i whose character is not a space or a tab
RECURSIVE SkipBlanks(_, _)
SkipBlanks(t, i) ==
    IF i <= Len(t) /\ Char(t, i) \in {" ", "\t"} THEN SkipBlanks(t, i + 1) ELSE i

\* variant: the value must be on the line of the period ([ \t]+ for \s+)
MatchAt_same_line(t, i) ==
    LET a == MatchHour(t, i)
        b == SkipSpace(t, a)
        c == SkipSpace(t, b + 1)
        d == MatchHour(t, c)
        e == SkipBlanks(t, d)
        f == SkipDigits(t, e)
    IN  IF a = 0 THEN NoMatch
        ELSE IF Char(t, b) \notin {EN_DASH, "-"} THEN NoMatch
        ELSE IF d = 0 THEN NoMatch
        ELSE IF e = d \/ f = e THEN NoMatch
        ELSE [end |-> f, s |-> Slice(t, i, a - 1), e |-> Slice(t, c, d - 1),
              v |-> Slice(t, e, f - 1)]

\* the match of the whole pattern that starts at position i, NoMatch if none
MatchAt(t, i) ==
    LET a == MatchHour(t, i)
        b == SkipSpace(t, a)
        c == SkipSpace(t, b + 1)
        d == MatchHour(t, c)
        e == SkipSpace(t, d)
        f == SkipDigits(t, e)
    IN  IF a = 0 THEN NoMatch
        ELSE IF Char(t, b) \notin {EN_DASH, "-"} THEN NoMatch
        ELSE IF d = 0 THEN NoMatch
        ELSE IF e = d \/ f = e THEN NoMatch
        ELSE [end |-> f, s |-> Slice(t, i, a - 1), e |-> Slice(t, c, d - 1),
              v |-> Slice(t, e, f - 1)]

\* str.replace(":", "")
RECURSIVE RemoveColons(_)
RemoveColons(s) ==
    IF s = "" THEN ""
    ELSE (IF Char(s, 1) = ":" THEN "" ELSE Char(s, 1)) \o RemoveColons(Tail(s))

\* the row appended for a match
OverflightRow(m) ==
    LET s == RemoveColons(m.s)
        e == RemoveColons(m.e)
    IN  [Period |-> Slice(s, 1, 2) \o "00" \o EN_DASH \o Slice(e, 1, 2) \o "00",
         Overflights |-> ParseInt(m.v)]

\* patt.finditer(text) from position pos on: leftmost matches, not overlapping
RECURSIVE FindIter(_, _)
FindIter(t, pos) ==
    IF pos > Len(t) THEN <<>>
    ELSE LET m == MatchAt(t, pos)
         IN  IF m.end = 0 THEN FindIter(t, pos + 1)
             ELSE <<OverflightRow(m)>> \o FindIter(t, m.end)

extract_overflights(text) == FindIter(text, 1)

(***************************************************************************)
(* Sector capacity and utilization.  "Utilization %" is a float rounded to *)
(* one decimal; it is kept here as an integer number of tenths of a        *)
(* percent.  est_peak * 1000 / cap is never half way between two integers  *)
(* for cap 26 or 27, so rounding to the nearest tenth is exact.            *)
(***************************************************************************)
PASSWORD == "atfmiraqmm"

SECTOR_CAP == <<[Sector |-> "South/TASMI", cap |-> 26], [Sector |-> "RATVO", cap |-> 27]>>

DEFAULT_PEAK == 20

RECURSIVE MaxOverflights(_)
MaxOverflights(df) ==
    IF Len(df) = 1 THEN df[1].Overflights
    ELSE LET m == MaxOverflights(Tail(df))
         IN  IF df[1].Overflights >= m THEN df[1].Overflights ELSE m

\* int(overflights_df["Overflights"].max()) if not overflights_df.empty else 20
EstPeak(df) == IF df = <<>> THEN DEFAULT_PEAK ELSE MaxOverflights(df)

\* variant: the demand over the capacity of all sectors together
UtilizationTenths_combined(peak, cap) == (2000 * peak + 53) \div (2 * 53)

\* round((est_peak / cap) * 100, 1), in tenths of a percent
UtilizationTenths(peak, cap) == (2000 * peak + cap) \div (2 * cap)

\* variant: the capacity of a split sector
CapRow_doubled(sector, peak) ==
    [Sector |-> sector.Sector, Capacity |-> 2 * sector.cap,
     EstimatedPeakDemand |-> peak,
     Utilization |-> UtilizationTenths(peak, sector.cap)]

CapRow(sector, peak) ==
    [Sector |-> sector.Sector, Capacity |-> sector.cap,
     EstimatedPeakDemand |-> peak,
     Utilization |-> UtilizationTenths(peak, sector.cap)]

\* the loop over SECTOR_CAP.items() that fills cap_rows
cap_rows(peak) == [n \in 1..Len(SECTOR_CAP) |-> CapRow(SECTOR_CAP[n], peak)]

\* f"{float(u):.0f}": a float with one decimal to the nearest integer, ties to even
FormatPercent(tenths) ==
    LET q == tenths \div 10
        r == tenths % 10
    IN  IF r < 5 THEN q
        ELSE IF r > 5 THEN q + 1
        ELSE IF q % 2 = 0 THEN q ELSE q + 1

\* the capacity table build_adp_docx writes from cap_df
AdpCapTable(df) ==
    [n \in 1..Len(df) |->
        [Sector |-> df[n].Sector, Capacity |-> df[n].Capacity,
         EstimatedPeakDemand |-> df[n].EstimatedPeakDemand,
         Utilization |-> FormatPercent(df[n].Utilization)]]

(***************************************************************************)
(* The documents the fetch can return: paragraphs of the Word file.        *)
(***************************************************************************)
SectionParas ==
    {"Airspace Status", "Normal ops", "Airport airspace status", "Airport",
     "NOTE", ""}

SeriesParas ==
    {"0000~0100 73", "0100~0200", "64", "", "0530~0730 12", "0000~0100 7x",
     "01:00-02:00 5"}

SeqsUpTo(S, n) == UNION {[1..k -> S] : k \in 0..n}

\* documents about the airspace sections, and documents of hourly figures
SectionDocuments == SeqsUpTo(SectionParas, MaxSectionParas)
SeriesDocuments == SeqsUpTo(SeriesParas, MaxSeriesParas)
Documents == SectionDocuments \cup SeriesDocuments

(***************************************************************************)
(* The script run.                                                         *)
(***************************************************************************)
NewRun ==
    /\ pc' = "auth"
    /\ RAW_TEXT' = ""
    /\ airspace_info' = ""
    /\ overflights_df' = <<>>
    /\ est_peak' = 0
    /\ cap_df' = <<>>
    /\ adp_cap_table' = <<>>
    /\ get_calls' = 0
    /\ fetch_failed' = FALSE

Init ==
    /\ auth = FALSE
    /\ pc = "auth"
    /\ RAW_TEXT = ""
    /\ airspace_info = ""
    /\ overflights_df = <<>>
    /\ est_peak = 0
    /\ cap_df = <<>>
    /\ adp_cap_table = <<>>
    /\ get_calls = 0
    /\ fetch_failed = FALSE

\* session auth block, already logged in: st.success, no form
Authenticated ==
    /\ pc = "auth"
    /\ auth
    /\ pc' = "fetch"
    /\ UNCHANGED <<get_calls, fetch_failed, auth, RAW_TEXT, airspace_info,
                   overflights_df, est_peak, cap_df, adp_cap_table>>

\* the login form is drawn and was not submitted (ok is False)
LoginNotSubmitted ==
    /\ pc = "auth"
    /\ ~auth
    /\ pc' = "fetch"
    /\ UNCHANGED <<get_calls, fetch_failed, auth, RAW_TEXT, airspace_info,
                   overflights_df, est_peak, cap_df, adp_cap_table>>

\* the form was submitted with the password: auth is set, st.experimental_rerun()
LoginCorrect ==
    /\ pc = "auth"
    /\ ~auth
    /\ auth' = TRUE
    /\ NewRun

\* the form was submitted with another password: st.error, st.stop()
LoginWrong ==
    /\ pc = "auth"
    /\ ~auth
    /\ \E password \in {"", "atfmiraq"} :
          /\ password # PASSWORD
          /\ pc' = "stopped"
    /\ UNCHANGED <<get_calls, fetch_failed, auth, RAW_TEXT, airspace_info,
                   overflights_df, est_peak, cap_df, adp_cap_table>>

\* requests.get succeeded: RAW_TEXT = read_docx(DOC_BYTES)
FetchOk(documents) ==
    /\ pc = "fetch"
    /\ \E paragraphs \in documents : RAW_TEXT' = read_docx(paragraphs)
    /\ get_calls' = get_calls + 1
    /\ pc' = "extract"
    /\ UNCHANGED <<fetch_failed, auth, airspace_info, overflights_df, est_peak,
                   cap_df, adp_cap_table>>

\* the except branch without its st.stop(): the script goes on after st.error
FetchFail_no_stop ==
    /\ pc = "fetch"
    /\ get_calls' = get_calls + 1
    /\ fetch_failed' = TRUE
    /\ pc' = "extract"
    /\ UNCHANGED <<auth, RAW_TEXT, airspace_info, overflights_df, est_peak,
                   cap_df, adp_cap_table>>

\* requests.get or raise_for_status raised: st.error, st.stop()
FetchFail ==
    /\ pc = "fetch"
    /\ get_calls' = get_calls + 1
    /\ fetch_failed' = TRUE
    /\ pc' = "stopped"
    /\ UNCHANGED <<auth, RAW_TEXT, airspace_info, overflights_df, est_peak,
                   cap_df, adp_cap_table>>

\* RUN EXTRACTION
RunExtraction ==
    /\ pc = "extract"
    /\ airspace_info' = extract_airspace_info(RAW_TEXT)
    /\ overflights_df' = extract_overflights(RAW_TEXT)
    /\ pc' = "layout"
    /\ UNCHANGED <<get_calls, fetch_failed, auth, RAW_TEXT, est_peak, cap_df, adp_cap_table>>

\* LAYOUT SECTIONS, with the sector capacity and utilization table
Layout ==
    /\ pc = "layout"
    /\ est_peak' = EstPeak(overflights_df)
    /\ cap_df' = cap_rows(EstPeak(overflights_df))
    /\ pc' = "adp"
    /\ UNCHANGED <<get_calls, fetch_failed, auth, RAW_TEXT, airspace_info, overflights_df, adp_cap_table>>

\* the "Generate ADP (DOCX)" button was pressed: build_adp_docx()
GenerateAdp ==
    /\ pc = "adp"
    /\ adp_cap_table' = AdpCapTable(cap_df)
    /\ pc' = "done"
    /\ UNCHANGED <<get_calls, fetch_failed, auth, RAW_TEXT, airspace_info, overflights_df, est_peak, cap_df>>

\* the button was not pressed: the script runs to its end
NoAdp ==
    /\ pc = "adp"
    /\ pc' = "done"
    /\ UNCHANGED <<get_calls, fetch_failed, auth, RAW_TEXT, airspace_info,
                   overflights_df, est_peak, cap_df, adp_cap_table>>

\* an interaction with the page after a run ended starts the script again
Rerun ==
    /\ pc \in {"done", "stopped"}
    /\ NewRun
    /\ UNCHANGED auth

\* every step of the script but a successful fetch
ScriptStep ==
    \/ Authenticated
    \/ LoginNotSubmitted
    \/ LoginCorrect
    \/ LoginWrong
    \/ FetchFail
    \/ RunExtraction
    \/ Layout
    \/ GenerateAdp
    \/ NoAdp
    \/ Rerun

Next == ScriptStep \/ FetchOk(Documents)

Spec == Init /\ [][Next]_vars

\* the script run on the documents about the airspace sections
NextSections == ScriptStep \/ FetchOk(SectionDocuments)

SpecSections == Init /\ [][NextSections]_vars

\* the script run on the documents of hourly figures
NextSeries == ScriptStep \/ FetchOk(SeriesDocuments)

SpecSeries == Init /\ [][NextSeries]_vars

(***************************************************************************)
(* Properties.  The vocabulary they share:                                 *)
(***************************************************************************)
\* the extractors have just run: their results are not assigned again in the run
Extracted == pc = "layout"

\* the keywords in lower case
LowerAll(keys) == [n \in 1..Len(keys) |-> Lower(keys[n])]
StartKeys == LowerAll(AIRSPACE_KEYWORDS)
StopKeys == LowerAll(AIRSPACE_STOP_KEYWORDS)

\* the line is, apart from case, one of the (lower case) keys
IsExactly(keys, ln) ==
    LET low == Lower(ln) IN \E n \in 1..Len(keys) : low = keys[n]

\* the line has one of the (lower case) keys somewhere in it, in any case
Mentions(keys, ln) ==
    LET low == Lower(ln) IN \E n \in 1..Len(keys) : Contains(keys[n], low)

\* the line mentions a key without being one
MerelyMentions(keys, ln) == Mentions(keys, ln) /\ ~IsExactly(keys, ln)

\* a short all-caps line, the heading heuristic
ShortCaps(ln) == Len(Strip(ln)) < SHORT_HEADING_LEN /\ IsUpper(ln)

ExactStart(ln) == IsExactly(StartKeys, ln)
ExactEnd(ln) == IsExactly(StopKeys, ln)
NoHeading(ln) == ~ExactStart(ln) /\ ~ExactEnd(ln)
MentionsStart(ln) == Mentions(StartKeys, ln)
MentionsEnd(ln) == Mentions(StopKeys, ln)

\* a body line that neither mentions a stop keyword nor looks like a heading
PlainBody(ln) == ~MentionsEnd(ln) /\ ~ShortCaps(ln)

\* the lines are one start line, body lines, one end line
HeadingBodyHeading(lines, isStart(_), isBody(_), isEnd(_)) ==
    /\ Len(lines) >= 2
    /\ isStart(lines[1])
    /\ isEnd(lines[Len(lines)])
    /\ \A k \in 2..(Len(lines) - 1) : isBody(lines[k])

\* lines a..b joined and trimmed, as a block is returned
BlockOf(lines, a, b) == Strip(JoinLines(SubSeq(lines, a, b)))

\* C1 as claimed: for a document made of a start-heading line, N body lines
\* and an end-heading line, the block is exactly the N body lines (trimmed):
\* neither heading line is in it.
C1_OnlyBodyLines ==
    Extracted =>
        LET lines == SplitLines(RAW_TEXT)
        IN  HeadingBodyHeading(lines, ExactStart, NoHeading, ExactEnd)
                => airspace_info = BlockOf(lines, 2, Len(lines) - 1)

\* C1 amended: for a document made of a start-heading line, N body lines none
\* of which mentions a stop keyword or is a short all-caps line, and an
\* end-heading line, the block is the start-heading line followed by the N
\* body lines in order (trimmed as a whole); the end-heading line is not in it.
C1_HeadingAndBodyLines ==
    Extracted =>
        LET lines == SplitLines(RAW_TEXT)
        IN  HeadingBodyHeading(lines, MentionsStart, PlainBody, MentionsEnd)
                => airspace_info = BlockOf(lines, 1, Len(lines) - 1)

C1_Witness ==
    /\ Extracted
    /\ LET lines == SplitLines(RAW_TEXT)
       IN  /\ Len(lines) = 4
           /\ HeadingBodyHeading(lines, ExactStart, PlainBody, ExactEnd)
           /\ lines[2] # "" /\ lines[3] # ""
           /\ SplitLines(airspace_info) = SubSeq(lines, 1, 3)

\* C2 as claimed: headings are recognised by line equality.  A line that merely
\* mentions a start keyword never starts a section, and a body line that merely
\* mentions a stop keyword never ends one: it is part of the block.
C2_ExactLineEquality ==
    Extracted =>
        LET lines == SplitLines(RAW_TEXT)
        IN  /\ (\A k \in 1..Len(lines) : ~ExactStart(lines[k])) => airspace_info = ""
            /\ \A j \in 2..Len(lines) :
                  (/\ ExactStart(lines[1])
                   /\ MerelyMentions(StopKeys, lines[j])
                   /\ \A k \in 2..j : ~ExactEnd(lines[k]) /\ ~ShortCaps(lines[k]))
                      => Contains(lines[j], airspace_info)

\* C2 amended: headings are recognised by case-insensitive containment.  The
\* block is not empty exactly when some line mentions a start keyword; it
\* starts with the first such line, and no later line of the block mentions a
\* stop keyword: the first line after the start that mentions one, body text
\* or not, ends the block.
C2_SubstringRecognition ==
    Extracted =>
        LET lines == SplitLines(RAW_TEXT)
            block == SplitLines(airspace_info)
        IN  /\ (airspace_info # "") <=> (\E k \in 1..Len(lines) : MentionsStart(lines[k]))
            /\ airspace_info # "" =>
                  \E s \in 1..Len(lines) :
                      /\ MentionsStart(lines[s])
                      /\ Strip(lines[s]) = Strip(block[1])
                      /\ \A k \in 1..(s - 1) : ~MentionsStart(lines[k])
            /\ \A k \in 2..Len(block) : ~MentionsEnd(block[k])

C2_Witness ==
    /\ Extracted
    /\ LET lines == SplitLines(RAW_TEXT)
       IN  /\ Len(lines) = 4
           /\ MerelyMentions(StartKeys, lines[1])
           /\ PlainBody(lines[2]) /\ lines[2] # ""
           /\ MerelyMentions(StopKeys, lines[3])
           /\ SplitLines(airspace_info) = SubSeq(lines, 1, 2)

\* the first line that mentions a start keyword, 0 if there is none
RECURSIVE FirstStartFrom(_, _)
FirstStartFrom(lines, k) ==
    IF k > Len(lines) THEN 0
    ELSE IF MentionsStart(lines[k]) THEN k
    ELSE FirstStartFrom(lines, k + 1)

\* no line after line s mentions a stop keyword
NoEndHeading(lines, s) == \A k \in (s + 1)..Len(lines) : ~MentionsEnd(lines[k])

\* the short all-caps lines more than one line after line s
CapsAfter(lines, s) == {k \in (s + 2)..Len(lines) : ShortCaps(lines[k])}

\* C3 as claimed: when the start heading is found and no later line is an end
\* heading, the block runs to the last line of the document.
C3_RunsToEndOfDocument ==
    Extracted =>
        LET lines == SplitLines(RAW_TEXT)
            s == FirstStartFrom(lines, 1)
        IN  (s # 0 /\ NoEndHeading(lines, s))
                => airspace_info = BlockOf(lines, s, Len(lines))

\* C3 amended: when the start heading is found and no later line is an end
\* heading (or no stop keyword is given), the block runs to the last line of
\* the document unless a short all-caps line comes more than one line after
\* the start heading; the first such line ends the block as well.
C3_RunsToEndOrCapsHeading ==
    Extracted =>
        LET lines == SplitLines(RAW_TEXT)
            s == FirstStartFrom(lines, 1)
            caps == CapsAfter(lines, s)
            last == IF caps = {} THEN Len(lines)
                    ELSE (CHOOSE c \in caps : \A d \in caps : c <= d) - 1
            block == BlockOf(lines, s, last)
        IN  s # 0 =>
               /\ NoEndHeading(lines, s) => airspace_info = block
               /\ extract_section(RAW_TEXT, AIRSPACE_KEYWORDS, <<>>) = block

C3_Witness ==
    /\ Extracted
    /\ LET lines == SplitLines(RAW_TEXT)
       IN  /\ Len(lines) = 4
           /\ MentionsStart(lines[1])
           /\ NoEndHeading(lines, 1)
           /\ ShortCaps(lines[2])
           /\ CapsAfter(lines, 1) = {}
           /\ lines[4] # ""
           /\ SplitLines(airspace_info) = lines

\* C4: in a document where no line matches (mentions, in any case) a start
\* keyword, the block is empty, whatever the other lines are.
C4_NoHeadingEmptyBlock ==
    Extracted =>
        LET lines == SplitLines(RAW_TEXT)
        IN  FirstStartFrom(lines, 1) = 0 => airspace_info = ""

C4_Witness ==
    /\ Extracted
    /\ LET lines == SplitLines(RAW_TEXT)
       IN  /\ Len(lines) >= 3
           /\ FirstStartFrom(lines, 1) = 0
           /\ \E k \in 1..Len(lines) : MentionsEnd(lines[k])
           /\ \E k \in 1..Len(lines) : ShortCaps(lines[k])
           /\ airspace_info = ""

(***************************************************************************)
(* Hourly entries as the specification describes them, line by line.       *)
(***************************************************************************)
AllDigits(t) == t # "" /\ \A i \in 1..Len(t) : IsDigit(Char(t, i))

\* a valid HHMM
IsHHMM(t) ==
    /\ Len(t) = 4
    /\ AllDigits(t)
    /\ ParseInt(Slice(t, 1, 2)) <= 23
    /\ ParseInt(Slice(t, 3, 4)) <= 59

IsDash(c) == c \in {EN_DASH, "-"}

\* the line starts with HHMM<dash>HHMM
HasPeriod(ln) ==
    /\ Len(ln) >= 9
    /\ IsHHMM(Slice(ln, 1, 4))
    /\ IsDash(Char(ln, 5))
    /\ IsHHMM(Slice(ln, 6, 9))

\* both times of the period are full hours
OnTheHour(ln) == Slice(ln, 3, 4) = "00" /\ Slice(ln, 8, 9) = "00"

\* what follows the period on its line
AfterPeriod(ln) == Slice(ln, 10, Len(ln))

\* HHMM<dash>HHMM alone
PeriodOnly(ln) == Len(ln) = 9 /\ HasPeriod(ln)

\* HHMM<dash>HHMM<whitespace>INTEGER
SingleLine(ln) ==
    /\ HasPeriod(ln)
    /\ LET rest == AfterPeriod(ln)
       IN  LStrip(rest) # rest /\ AllDigits(LStrip(rest))

\* resembles an entry, but the value is not purely digits
MalformedValue(ln) ==
    /\ HasPeriod(ln)
    /\ LET rest == AfterPeriod(ln)
       IN  LStrip(rest) # rest /\ LStrip(rest) # "" /\ ~AllDigits(LStrip(rest))

TimeSeriesPoint(ln, digits) ==
    [periodStart |-> Slice(ln, 1, 4), periodEnd |-> Slice(ln, 6, 9),
     value |-> ParseInt(digits)]

\* the first line from k on that is not blank, 0 if there is none
RECURSIVE NextNonBlank(_, _)
NextNonBlank(lines, k) ==
    IF k > Len(lines) THEN 0
    ELSE IF Strip(lines[k]) # "" THEN k
    ELSE NextNonBlank(lines, k + 1)

NotEntries == [ok |-> FALSE, points |-> <<>>]

WithPoint(p, r) == IF r.ok THEN [ok |-> TRUE, points |-> <<p>> \o r.points] ELSE r

\* The points of a document that is a sequence of entries, each in single-line
\* or two-line form, read line by line from line k on; ok is FALSE when some
\* line is no part of an entry.  hourly: the periods must be on the full hour.
\* lenient: lines with a malformed value may occur, and give no point.
RECURSIVE ReadEntries(_, _, _, _)
ReadEntries(lines, k, hourly, lenient) ==
    IF k > Len(lines) THEN [ok |-> TRUE, points |-> <<>>]
    ELSE LET ln == lines[k]
             j == NextNonBlank(lines, k + 1)
         IN  IF Strip(ln) = "" THEN ReadEntries(lines, k + 1, hourly, lenient)
             ELSE IF SingleLine(ln) /\ (hourly => OnTheHour(ln))
             THEN WithPoint(TimeSeriesPoint(ln, LStrip(AfterPeriod(ln))),
                            ReadEntries(lines, k + 1, hourly, lenient))
             ELSE IF /\ PeriodOnly(ln) /\ (hourly => OnTheHour(ln))
                     /\ j # 0 /\ AllDigits(lines[j])
             THEN WithPoint(TimeSeriesPoint(ln, lines[j]),
                            ReadEntries(lines, j + 1, hourly, lenient))
             ELSE IF lenient /\ MalformedValue(ln)
             THEN ReadEntries(lines, k + 1, hourly, lenient)
             ELSE NotEntries

\* the rows of the extracted series as points
PointsOf(df) ==
    [n \in 1..Len(df) |->
        [periodStart |-> Slice(df[n].Period, 1, 4),
         periodEnd |-> Slice(df[n].Period, 6, 9),
         value |-> df[n].Overflights]]

Range(f) == {f[n] : n \in DOMAIN f}

\* C5 as claimed: for every sequence of entries in single-line or two-line form
\* with any valid HHMM start and end, the series has exactly one point per
\* entry, with that entry's periodStart, periodEnd and value.
C5_OnePointPerEntry ==
    Extracted =>
        LET entries == ReadEntries(SplitLines(RAW_TEXT), 1, FALSE, FALSE)
            points == PointsOf(overflights_df)
        IN  entries.ok =>
               /\ Len(points) = Len(entries.points)
               /\ Range(points) = Range(entries.points)

\* C5 amended: for every sequence of entries in single-line or two-line form
\* whose start and end are on the full hour (HH00), the series has exactly one
\* point per entry, in the order of the document, with that entry's
\* periodStart, periodEnd and value; no line gives more than one point.
C5_OnePointPerHourlyEntry ==
    Extracted =>
        LET entries == ReadEntries(SplitLines(RAW_TEXT), 1, TRUE, FALSE)
        IN  entries.ok => PointsOf(overflights_df) = entries.points

C5_Witness ==
    /\ Extracted
    /\ LET lines == SplitLines(RAW_TEXT)
       IN  /\ Len(lines) = 4
           /\ PeriodOnly(lines[1]) /\ lines[2] = "" /\ AllDigits(lines[3])
           /\ SingleLine(lines[4])
           /\ ReadEntries(lines, 1, TRUE, FALSE).ok
    /\ Len(overflights_df) = 2
    /\ overflights_df[1].Overflights # overflights_df[2].Overflights

\* C6 as claimed: the series is sorted ascending by the numeric value of
\* periodStart, in whatever order the entries stand in the document.
C6_SortedByPeriodStart ==
    Extracted =>
        LET points == PointsOf(overflights_df)
        IN  ReadEntries(SplitLines(RAW_TEXT), 1, TRUE, FALSE).ok =>
               \A m, n \in 1..Len(points) :
                   m < n => ParseInt(points[m].periodStart)
                               <= ParseInt(points[n].periodStart)

\* C7 as claimed: the series has unique periods; a period that occurs more than
\* once in the document has a single point, with the value of its last
\* occurrence.
C7_UniquePeriods ==
    Extracted =>
        LET points == PointsOf(overflights_df)
            entries == ReadEntries(SplitLines(RAW_TEXT), 1, TRUE, FALSE)
            SamePeriod(p, q) == /\ p.periodStart = q.periodStart
                                /\ p.periodEnd = q.periodEnd
            IsLast(k) == \A l \in (k + 1)..Len(entries.points) :
                            ~SamePeriod(entries.points[k], entries.points[l])
        IN  entries.ok =>
               /\ \A m, n \in 1..Len(points) :
                     SamePeriod(points[m], points[n]) => m = n
               /\ \A m \in 1..Len(points) : \E k \in 1..Len(entries.points) :
                     IsLast(k) /\ points[m] = entries.points[k]

\* C8 as claimed: a line that resembles an entry but whose value is not purely
\* digits gives no point at all, and the entries after it are still extracted.
C8_MalformedValueSkipped ==
    Extracted =>
        LET entries == ReadEntries(SplitLines(RAW_TEXT), 1, TRUE, TRUE)
        IN  entries.ok => PointsOf(overflights_df) = entries.points

(***************************************************************************)
(* Capacity windows as the specification describes them, in minutes since  *)
(* 00:00; the hour bucket of h is [h * 60, h * 60 + 60).                   *)
(***************************************************************************)
\* the capacity table has been computed in this script run
CapacityShown == pc \in {"adp", "done"}

Overlaps(windowStart, windowEnd, hourStart, hourEnd) ==
    IF windowStart <= windowEnd
    THEN ~(windowEnd <= hourStart \/ windowStart >= hourEnd)
    ELSE ~(hourEnd <= windowStart /\ hourStart >= windowEnd)

\* the windows of the claim: South 0530-0730 and South 2330-0130
ClaimWindows ==
    {[sector |-> "South/TASMI", start |-> 5 * 60 + 30, end |-> 7 * 60 + 30],
     [sector |-> "South/TASMI", start |-> 23 * 60 + 30, end |-> 60 + 30]}

BaseCapacity(sector) ==
    SECTOR_CAP[CHOOSE n \in 1..Len(SECTOR_CAP) : SECTOR_CAP[n].Sector = sector].cap

Dist(a, b) == IF a >= b THEN a - b ELSE b - a

\* u tenths of a percent is demand / capacity rounded to a tenth of a percent
IsRoundedPercent(u, demand, capacity) ==
    2 * Dist(u * capacity, 1000 * demand) <= capacity

\* the observed peak of the extracted series
IsObservedPeak(peak, df) ==
    /\ \E n \in 1..Len(df) : df[n].Overflights = peak
    /\ \A n \in 1..Len(df) : df[n].Overflights <= peak

\* C10 as claimed: every utilization figure is the observed demand of the
\* extracted series over the combined capacity of all sectors (checked where
\* the series is not empty, so that there is an observed demand).
C10_DemandOverCombinedCapacity ==
    (CapacityShown /\ overflights_df # <<>>) =>
        \A n \in 1..Len(cap_df) :
            /\ IsObservedPeak(cap_df[n].EstimatedPeakDemand, overflights_df)
            /\ IsRoundedPercent(cap_df[n].Utilization,
                                cap_df[n].EstimatedPeakDemand,
                                SECTOR_CAP[1].cap + SECTOR_CAP[2].cap)

\* C10 amended: every utilization figure is the estimated peak demand (the
\* largest value of the extracted series, 20 when the series is empty) over
\* the capacity of the single sector of its row, as a percentage rounded to
\* one decimal; the ADP document shows that figure rounded to an integer.
C10_DemandOverSectorCapacity ==
    CapacityShown =>
        /\ Len(cap_df) = Len(SECTOR_CAP)
        /\ IF overflights_df = <<>> THEN est_peak = 20
           ELSE IsObservedPeak(est_peak, overflights_df)
        /\ \A n \in 1..Len(cap_df) :
              /\ cap_df[n].EstimatedPeakDemand = est_peak
              /\ IsRoundedPercent(cap_df[n].Utilization, est_peak, SECTOR_CAP[n].cap)
        /\ \A n \in 1..Len(adp_cap_table) :
              2 * Dist(10 * adp_cap_table[n].Utilization, cap_df[n].Utilization) <= 10

C10_Witness ==
    /\ pc = "done"
    /\ Len(adp_cap_table) = 2
    /\ Len(overflights_df) >= 2
    /\ est_peak = 73
    /\ cap_df[1].Utilization = 2808
    /\ cap_df[2].Utilization = 2704

(***************************************************************************)
(* The fetch and the session auth.                                         *)
(***************************************************************************)
\* nothing of the run after the fetch block has been computed
NothingProduced ==
    /\ RAW_TEXT = ""
    /\ airspace_info = ""
    /\ overflights_df = <<>>
    /\ cap_df = <<>>
    /\ adp_cap_table = <<>>

\* C11: when the document fetch fails, the run aborts at that point: in that
\* run requests.get was called exactly once (no retry), and no extraction
\* step, no data section and no report generation is reached; in no run is
\* the fetch attempted more than once.
C11_FetchFailureAbortsRun ==
    /\ get_calls <= 1
    /\ fetch_failed =>
          /\ pc = "stopped"
          /\ get_calls = 1
          /\ NothingProduced

C11_Witness ==
    /\ fetch_failed
    /\ auth
    /\ pc = "stopped"
    /\ get_calls = 1

\* the run is at or past the fetch block: the fetch, the extraction, the
\* data sections or the ADP generator
PastAuthBlock == pc \in {"fetch", "extract", "layout", "adp", "done"} \/ get_calls > 0

\* C12: session auth gates the dashboard: in every script run the document
\* fetch, the extraction and the rendering of the data sections are reached
\* only if st.session_state.auth is true.
C12_AuthGatesDashboard == PastAuthBlock => auth

=============================================================================
